---- MODULE Spec2Model ----
(***************************************************************************)
(* Grid pathfinding engine (Game::Systems::Pathfinding): obstacle grid,    *)
(* generation-stamped scratch store, A* search, synchronous facade and the *)
(* request/result pipeline served by one worker thread.                    *)
(***************************************************************************)
EXTENDS Integers, Sequences, FiniteSets, TLC

(***************************************************************************)
(* Bounds of the model.                                                    *)
(***************************************************************************)
Width == 10
Height == 3
MaxOps == 4
MaxRequests == 2
\* Width in bits of the generation counter (32 in the program), kept small so
\* that the wrap to zero is within reach.
GenBits == 3

(***************************************************************************)
(* Program constants.                                                      *)
(***************************************************************************)
INT_MAX == 2147483647

NumCells == Width * Height
CellIndices == 0 .. (NumCells - 1)
GenModulus == 2 ^ GenBits

\* main and peer call the engine, task is the thread findPathAsync starts,
\* worker is m_workerThread.
Threads == {"main", "peer", "task", "worker"}
Callers == {"main", "peer"}
NoThread == "none"
NoPoint == [x |-> -9, y |-> -9]
NoResult == << NoPoint >>
NoCell == -1

VARIABLES
  obstacles,          \* m_obstacles, flattened: index y * Width + x -> 0 | 1
  obstaclesDirty,     \* m_obstaclesDirty
  gridOffset,         \* m_gridOffsetX, m_gridOffsetZ, in half cells
  generationCounter,  \* m_generationCounter
  closedGeneration,   \* m_closedGeneration
  gCostGeneration,    \* m_gCostGeneration
  gCostValues,        \* m_gCostValues
  parentGeneration,   \* m_parentGeneration
  parentValues,       \* m_parentValues
  openHeap,           \* m_openHeap
  mutex,              \* m_mutex: the thread that holds it, or NoThread
  requestMutex,       \* m_requestMutex: the thread that holds it, or NoThread
  requestQueue,       \* m_requestQueue
  resultQueue,        \* m_resultQueue
  stopWorker,         \* m_stopWorker
  request,            \* workerLoop's local: the request popped last
  resultMutex,        \* m_resultMutex: the thread that holds it, or NoThread
  results,            \* fetchCompletedPaths' local, of the call in progress
  pc,                 \* position of each thread
  req,                \* findPath's arguments, per thread: [start, end]
  result,             \* findPath's last return value, per thread
  generation,         \* findPathInternal's local
  iterations,         \* findPathInternal's local
  final_cost,         \* findPathInternal's local
  terrain,            \* the terrain service: [initialized, width, height, unwalkable]
  buildings,          \* the building registry: a set of footprints
  \* History variables: they record what happened and steer nothing.
  ops,                \* number of calls made by the callers so far
  submitted,          \* request ids in the order they entered the request queue
  fetched,            \* request ids in the order fetchCompletedPaths returned them
  fetchSnapshot,      \* m_resultQueue when m_resultMutex was last taken by a fetch
  srcVersion,         \* number of changes of terrain and buildings so far
  markedVersion,      \* srcVersion when the dirty flag was last set
  gridVersion,        \* srcVersion read by the last rebuild pass, -1 before it
  marks,              \* times the dirty flag was set, the constructor's included
  passes,             \* rebuild passes run so far
  callMark,           \* per thread: markedVersion when its findPath call began
  lastBlocked,        \* cell of the last setObstacle(x, y, true), until it is
                      \* unblocked, the flag is marked or a findPath call begins
  avoid               \* per thread: lastBlocked when its findPath call began,
                      \* until the cell is unblocked or the flag is marked

gridVars == << obstacles, obstaclesDirty, gridOffset >>
searchVars == << generationCounter, closedGeneration, gCostGeneration, gCostValues,
                 parentGeneration, parentValues, openHeap,
                 generation, iterations, final_cost >>
pipeVars == << requestMutex, requestQueue, resultQueue, stopWorker, request >>
fetchVars == << resultMutex, results, fetchSnapshot >>
srcVars == << terrain, buildings >>
histVars == << ops, submitted, fetched, srcVersion, markedVersion, gridVersion,
               marks, passes,
               callMark, lastBlocked, avoid >>
vars == << gridVars, searchVars, pipeVars, fetchVars, srcVars, histVars, mutex, pc, req,
          result >>

----
(***************************************************************************)
(* Points and indices.                                                     *)
(***************************************************************************)
Point(px, py) == [x |-> px, y |-> py]

toIndex(p) == p.y * Width + p.x

toPoint(index) == [x |-> index % Width, y |-> index \div Width]

Abs(n) == IF n < 0 THEN -n ELSE n

\* Op applied to the value of v: v is evaluated once, as an argument passed by
\* value is.
ByValue(v, Op(_)) == CHOOSE r \in { Op(x) : x \in { v } } : TRUE

InBounds(px, py) == px >= 0 /\ px < Width /\ py >= 0 /\ py < Height

(***************************************************************************)
(* Obstacle grid.                                                          *)
(***************************************************************************)
\* The bound on x one too far: column Width passes.
isWalkable_EdgeInclusive(px, py) ==
  IF px < 0 \/ px > Width \/ py < 0 \/ py >= Height
  THEN FALSE
  ELSE obstacles[py * Width + px] = 0

\* The bound on x one too near: column 0 fails.
isWalkable_EdgeExclusive(px, py) ==
  IF px <= 0 \/ px >= Width \/ py < 0 \/ py >= Height
  THEN FALSE
  ELSE obstacles[py * Width + px] = 0

isWalkable(px, py) ==
  IF px < 0 \/ px >= Width \/ py < 0 \/ py >= Height
  THEN FALSE
  ELSE obstacles[py * Width + px] = 0

(***************************************************************************)
(* Generation-stamped scratch store.  A store value s is a record of the   *)
(* member arrays, the counter and the open heap.                           *)
(***************************************************************************)
Store ==
  [ generationCounter |-> generationCounter,
    closedGeneration  |-> closedGeneration,
    gCostGeneration   |-> gCostGeneration,
    gCostValues       |-> gCostValues,
    parentGeneration  |-> parentGeneration,
    parentValues      |-> parentValues,
    openHeap          |-> openHeap ]

FreshStore ==
  [ generationCounter |-> 0,
    closedGeneration  |-> [i \in CellIndices |-> 0],
    gCostGeneration   |-> [i \in CellIndices |-> 0],
    gCostValues       |-> [i \in CellIndices |-> INT_MAX],
    parentGeneration  |-> [i \in CellIndices |-> 0],
    parentValues      |-> [i \in CellIndices |-> -1],
    openHeap          |-> << >> ]

resetGenerations(s) ==
  [ s EXCEPT !.closedGeneration  = [i \in CellIndices |-> 0],
             !.gCostGeneration   = [i \in CellIndices |-> 0],
             !.parentGeneration  = [i \in CellIndices |-> 0],
             !.gCostValues       = [i \in CellIndices |-> INT_MAX],
             !.parentValues      = [i \in CellIndices |-> -1],
             !.generationCounter = 0 ]

\* nextGeneration that wraps to 1 without the call of resetGenerations.
nextGeneration_NoReset(s) ==
  LET next == (s.generationCounter + 1) % GenModulus
  IN [ s EXCEPT !.generationCounter = IF next = 0 THEN 1 ELSE next ]

\* nextGeneration without the second increment of line 271.
nextGeneration_ReturnsZero(s) ==
  LET next == (s.generationCounter + 1) % GenModulus
  IN IF next = 0
     THEN resetGenerations(s)
     ELSE [ s EXCEPT !.generationCounter = next ]

\* Returns the store after the call; the generation returned is its counter.
nextGeneration(s) ==
  LET next == (s.generationCounter + 1) % GenModulus
  IN IF next = 0
     THEN [ resetGenerations(s) EXCEPT !.generationCounter = 1 ]
     ELSE [ s EXCEPT !.generationCounter = next ]

\* isClosed that never finds a cell closed.
isClosed_Never(s, index, gen) == FALSE

isClosed(s, index, gen) ==
  index >= 0 /\ index < NumCells /\ s.closedGeneration[index] = gen

setClosed(s, index, gen) ==
  IF index >= 0 /\ index < NumCells
  THEN [ s EXCEPT !.closedGeneration[index] = gen ]
  ELSE s

getGCost(s, index, gen) ==
  IF index < 0 \/ index >= NumCells
  THEN INT_MAX
  ELSE IF s.gCostGeneration[index] = gen
       THEN s.gCostValues[index]
       ELSE INT_MAX

setGCost(s, index, gen, cost) ==
  IF index >= 0 /\ index < NumCells
  THEN [ s EXCEPT !.gCostGeneration[index] = gen, !.gCostValues[index] = cost ]
  ELSE s

hasParent(s, index, gen) ==
  index >= 0 /\ index < NumCells /\ s.parentGeneration[index] = gen

getParent(s, index, gen) ==
  IF hasParent(s, index, gen) THEN s.parentValues[index] ELSE -1

\* setParent that writes the link and forgets its stamp.
setParent_NoStamp(s, index, gen, parentIndex) ==
  IF index >= 0 /\ index < NumCells
  THEN [ s EXCEPT !.parentValues[index] = parentIndex ]
  ELSE s

setParent(s, index, gen, parentIndex) ==
  IF index >= 0 /\ index < NumCells
  THEN [ s EXCEPT !.parentGeneration[index] = gen, !.parentValues[index] = parentIndex ]
  ELSE s

(***************************************************************************)
(* Open heap: a binary min-heap kept in a sequence; position k of the      *)
(* vector is element k + 1 of the sequence.                                *)
(***************************************************************************)
QueueNode(index, fCost, gCost) == [index |-> index, fCost |-> fCost, gCost |-> gCost]

\* heapLess without the tie-break on gCost.
heapLess_NoTieBreak(lhs, rhs) == lhs.fCost < rhs.fCost

heapLess(lhs, rhs) ==
  IF lhs.fCost # rhs.fCost
  THEN lhs.fCost < rhs.fCost
  ELSE lhs.gCost < rhs.gCost

SwapAt(h, i, j) == [ h EXCEPT ![i + 1] = h[j + 1], ![j + 1] = h[i + 1] ]

RECURSIVE SiftUp(_, _)
SiftUp(heap, index) ==
  IF index = 0
  THEN heap
  ELSE ByValue(heap, LAMBDA h :
         LET parent == (index - 1) \div 2
         IN IF heapLess(h[parent + 1], h[index + 1])
            THEN h
            ELSE SiftUp(SwapAt(h, parent, index), parent))

pushOpenNode(s, node) ==
  LET h == Append(s.openHeap, node)
  IN [ s EXCEPT !.openHeap = SiftUp(h, Len(h) - 1) ]

RECURSIVE SiftDown(_, _)
SiftDown(heap, index) ==
  ByValue(heap, LAMBDA h :
    LET size  == Len(h)
        left  == index * 2 + 1
        right == left + 1
        s1    == IF left < size /\ ~heapLess(h[index + 1], h[left + 1])
                 THEN left ELSE index
        smallest == IF right < size /\ ~heapLess(h[s1 + 1], h[right + 1])
                    THEN right ELSE s1
    IN IF smallest = index
       THEN h
       ELSE SiftDown(SwapAt(h, index, smallest), smallest))

\* Returns [node, store]: the popped entry and the store without it.
popOpenNode(s) ==
  LET h    == s.openHeap
      top  == h[1]
      last == h[Len(h)]
      rest == SubSeq(h, 1, Len(h) - 1)
  IN [ node  |-> top,
       store |-> [ s EXCEPT !.openHeap =
                     IF rest = << >>
                     THEN rest
                     ELSE SiftDown([rest EXCEPT ![1] = last], 0) ] ]

(***************************************************************************)
(* A* search.                                                              *)
(***************************************************************************)
calculateHeuristic(a, b) == Abs(a.x - b.x) + Abs(a.y - b.y)

\* The offsets in the order of the two nested loops, dx outer, dy inner.
NeighborOffsets ==
  << <<-1, -1>>, <<-1, 0>>, <<-1, 1>>, <<0, -1>>, <<0, 1>>, <<1, -1>>, <<1, 0>>, <<1, 1>> >>

\* collectNeighbors without the test of the two flanking cells.
collectNeighbors_CutCorners(point) ==
  LET Admitted(d) ==
        LET nx == point.x + d[1]
            ny == point.y + d[2]
        IN ~(nx < 0 \/ nx >= Width \/ ny < 0 \/ ny >= Height)
  IN ByValue(SelectSeq(NeighborOffsets, Admitted), LAMBDA kept :
       [ k \in 1 .. Len(kept) |-> Point(point.x + kept[k][1], point.y + kept[k][2]) ])

collectNeighbors(point) ==
  LET Admitted(d) ==
        LET nx == point.x + d[1]
            ny == point.y + d[2]
        IN /\ ~(nx < 0 \/ nx >= Width \/ ny < 0 \/ ny >= Height)
           /\ (d[1] # 0 /\ d[2] # 0) =>
                 (isWalkable(point.x + d[1], point.y) /\ isWalkable(point.x, point.y + d[2]))
  IN ByValue(SelectSeq(NeighborOffsets, Admitted), LAMBDA kept :
       [ k \in 1 .. Len(kept) |-> Point(point.x + kept[k][1], point.y + kept[k][2]) ])

\* The for-loop over the neighbours of the current node (lines 210-231).
\* The neighbour loop without the walkability test of lines 212-214.
RECURSIVE ExpandNeighbors_NoWalkTest(_, _, _, _, _, _)
ExpandNeighbors_NoWalkTest(store, neighbors, i, current, gen, endPoint) ==
  IF i > Len(neighbors)
  THEN store
  ELSE ByValue(store, LAMBDA s : ByValue(neighbors[i], LAMBDA neighbor :
         LET neighbor_idx == toIndex(neighbor)
             tentative_gcost == current.gCost + 1
         IN IF isClosed(s, neighbor_idx, gen)
            THEN ExpandNeighbors_NoWalkTest(s, neighbors, i + 1, current, gen, endPoint)
            ELSE IF tentative_gcost >= getGCost(s, neighbor_idx, gen)
            THEN ExpandNeighbors_NoWalkTest(s, neighbors, i + 1, current, gen, endPoint)
            ELSE LET s1 == setGCost(s, neighbor_idx, gen, tentative_gcost)
                     s2 == setParent(s1, neighbor_idx, gen, current.index)
                     h_cost == calculateHeuristic(neighbor, endPoint)
                     s3 == pushOpenNode(s2, QueueNode(neighbor_idx,
                                                      tentative_gcost + h_cost,
                                                      tentative_gcost))
                 IN ExpandNeighbors_NoWalkTest(s3, neighbors, i + 1, current, gen,
                                               endPoint)))

RECURSIVE ExpandNeighbors(_, _, _, _, _, _)
ExpandNeighbors(store, neighbors, i, current, gen, endPoint) ==
  IF i > Len(neighbors)
  THEN store
  ELSE ByValue(store, LAMBDA s : ByValue(neighbors[i], LAMBDA neighbor :
         LET neighbor_idx == toIndex(neighbor)
             tentative_gcost == current.gCost + 1
         IN IF ~isWalkable(neighbor.x, neighbor.y)
            THEN ExpandNeighbors(s, neighbors, i + 1, current, gen, endPoint)
            ELSE IF isClosed(s, neighbor_idx, gen)
            THEN ExpandNeighbors(s, neighbors, i + 1, current, gen, endPoint)
            ELSE IF tentative_gcost >= getGCost(s, neighbor_idx, gen)
            THEN ExpandNeighbors(s, neighbors, i + 1, current, gen, endPoint)
            ELSE LET s1 == setGCost(s, neighbor_idx, gen, tentative_gcost)
                     s2 == setParent(s1, neighbor_idx, gen, current.index)
                     h_cost == calculateHeuristic(neighbor, endPoint)
                     s3 == pushOpenNode(s2, QueueNode(neighbor_idx,
                                                      tentative_gcost + h_cost,
                                                      tentative_gcost))
                 IN ExpandNeighbors(s3, neighbors, i + 1, current, gen, endPoint)))

\* A budget of twice the number of cells.
max_iterations_Doubled == 2 * Width * Height

max_iterations == IF Width * Height > 1 THEN Width * Height ELSE 1

Reverse(seq) == [ k \in 1 .. Len(seq) |-> seq[Len(seq) + 1 - k] ]

\* The walk over the parent links from current; acc is outPath so far, end
\* first.  NoWalk stands for outPath.clear().  A walk of more links than there
\* are cells is in a cycle, which the code never leaves: the model cuts it.
NoWalk == << >>

RECURSIVE BuildWalk(_, _, _, _, _, _)
BuildWalk(s, startIndex, from, gen, acc, fuel) ==
  ByValue(from, LAMBDA current :
    IF current < 0 \/ fuel = 0
    THEN NoWalk
    ELSE LET out == Append(acc, toPoint(current))
         IN IF current = startIndex
            THEN out
            ELSE IF ~hasParent(s, current, gen)
            THEN NoWalk
            ELSE LET parent == getParent(s, current, gen)
                 IN IF parent = current \/ parent < 0
                    THEN NoWalk
                    ELSE BuildWalk(s, startIndex, parent, gen, out, fuel - 1))

\* buildPath without the std::reverse of line 383.
buildPath_NoReverse(s, startIndex, endIndex, gen) ==
  BuildWalk(s, startIndex, endIndex, gen, << >>, NumCells + 1)

buildPath(s, startIndex, endIndex, gen) ==
  Reverse(BuildWalk(s, startIndex, endIndex, gen, << >>, NumCells + 1))

(***************************************************************************)
(* The external sources and the rebuild of the grid from them.             *)
(***************************************************************************)
Terrain(init, w, h, unwalkable) ==
  [initialized |-> init, width |-> w, height |-> h, unwalkable |-> unwalkable]

\* Terrain states the terrain service goes through in the model: all of the
\* grid walkable, one cell unwalkable on a map one column short of the grid,
\* and the service not initialized.
TerrainConfigs ==
  { Terrain(TRUE, Width, Height, {}),
    Terrain(TRUE, Width - 1, Height, { Point(1, 0) }),
    Terrain(FALSE, 0, 0, {}) }

\* Footprints are sets of cell coordinates in half cells, as
\* getOccupiedGridCells reports them: <<3, 1>> is the cell (1.5, 0.5).
BuildingConfigs == { {}, { { <<3, 1>>, <<4, 2>> } } }

\* std::round of a value given in halves: to nearest, halves away from zero.
RoundHalves(h) == IF h >= 0 THEN (h + 1) \div 2 ELSE -((1 - h) \div 2)

TerrainBlocked(x, z) ==
  /\ terrain.initialized
  /\ IF x < terrain.width /\ z < terrain.height
     THEN Point(x, z) \in terrain.unwalkable
     ELSE TRUE

BuildingBlocked(x, z) ==
  \E building \in buildings : \E cell \in building :
    /\ RoundHalves(cell[1] - gridOffset.x) = x
    /\ RoundHalves(cell[2] - gridOffset.z) = z

\* Lines 69-71: every row filled with 0.
ClearedGrid == [ i \in CellIndices |-> 0 ]

\* Lines 73-96: the terrain pass over grid, which writes 1 and never 0.
TerrainPass(grid) ==
  [ i \in CellIndices |->
      IF TerrainBlocked(i % Width, i \div Width) THEN 1 ELSE grid[i] ]

\* Lines 98-114: the building pass over grid, which writes 1 and never 0.
BuildingPass(grid) ==
  [ i \in CellIndices |->
      IF BuildingBlocked(i % Width, i \div Width) THEN 1 ELSE grid[i] ]

\* Lines 69-114: the grid after a rebuild pass nothing else writes during.
RebuiltGrid == BuildingPass(TerrainPass(ClearedGrid))

(***************************************************************************)
(* findPath: the dirty check, updateBuildingObstacles and the lock.        *)
(***************************************************************************)
SetStore(s) ==
  /\ generationCounter' = s.generationCounter
  /\ closedGeneration'  = s.closedGeneration
  /\ gCostGeneration'   = s.gCostGeneration
  /\ gCostValues'       = s.gCostValues
  /\ parentGeneration'  = s.parentGeneration
  /\ parentValues'      = s.parentValues
  /\ openHeap'          = s.openHeap

Goto(t, label) == pc' = [pc EXCEPT ![t] = label]

\* Entry into findPath(start, end) by thread t, whose pc the caller sets.
Enter(t, start, end) ==
  /\ req' = [req EXCEPT ![t] = [start |-> start, end |-> end]]
  /\ result' = [result EXCEPT ![t] = NoResult]
  /\ callMark' = [callMark EXCEPT ![t] = markedVersion]
  /\ avoid' = [avoid EXCEPT ![t] = lastBlocked]
  /\ lastBlocked' = NoCell

\* Line 122: the dirty check of findPath.
FpCheck(t) ==
  /\ pc[t] = "fp_check"
  /\ Goto(t, IF obstaclesDirty THEN "ubo_outer" ELSE "fp_lock")
  /\ UNCHANGED << gridVars, searchVars, pipeVars, srcVars, histVars, mutex, req, result >>
  /\ UNCHANGED fetchVars

\* Lines 59-61: the outer check of updateBuildingObstacles.
UboOuter(t) ==
  /\ pc[t] = "ubo_outer"
  /\ Goto(t, IF ~obstaclesDirty THEN "fp_lock" ELSE "ubo_lock")
  /\ UNCHANGED << gridVars, searchVars, pipeVars, srcVars, histVars, mutex, req, result >>
  /\ UNCHANGED fetchVars

\* updateBuildingObstacles without the second check of lines 65-67.
UboLock_NoInnerCheck(t) ==
  /\ pc[t] = "ubo_lock"
  /\ mutex = NoThread
  /\ Goto(t, "ubo_fill")
  /\ mutex' = t
  /\ UNCHANGED << gridVars, searchVars, pipeVars, srcVars, histVars, req, result >>
  /\ UNCHANGED fetchVars

\* Lines 63-67: the lock and the inner check; the early return unlocks again.
UboLock(t) ==
  /\ pc[t] = "ubo_lock"
  /\ mutex = NoThread
  /\ IF ~obstaclesDirty
     THEN Goto(t, "fp_lock") /\ UNCHANGED mutex
     ELSE Goto(t, "ubo_fill") /\ mutex' = t
  /\ UNCHANGED << gridVars, searchVars, pipeVars, srcVars, histVars, req, result >>
  /\ UNCHANGED fetchVars

\* The rebuild clearing the flag before the pass instead of after it.
UboClear_StoreFirst(t) ==
  /\ pc[t] = "ubo_fill"
  /\ mutex = t
  /\ obstacles' = ClearedGrid
  /\ obstaclesDirty' = FALSE
  /\ Goto(t, "ubo_terrain")
  /\ UNCHANGED << gridOffset, searchVars, pipeVars, srcVars, histVars, mutex, req, result >>
  /\ UNCHANGED fetchVars

\* Lines 69-71: the grid is cleared.
UboClear(t) ==
  /\ pc[t] = "ubo_fill"
  /\ mutex = t
  /\ obstacles' = ClearedGrid
  /\ Goto(t, "ubo_terrain")
  /\ UNCHANGED << obstaclesDirty, gridOffset, searchVars, pipeVars, srcVars, histVars,
                  mutex, req, result >>
  /\ UNCHANGED fetchVars

\* Lines 73-96: the terrain service is read and its blocked cells written.
UboTerrain(t) ==
  /\ pc[t] = "ubo_terrain"
  /\ mutex = t
  /\ obstacles' = TerrainPass(obstacles)
  /\ gridVersion' = srcVersion
  /\ passes' = passes + 1
  /\ Goto(t, "ubo_buildings")
  /\ UNCHANGED << obstaclesDirty, gridOffset, searchVars, pipeVars, srcVars, mutex, req,
                  result, ops, submitted, fetched, srcVersion, markedVersion, callMark,
                  lastBlocked, avoid, marks >>
  /\ UNCHANGED fetchVars

\* Lines 98-114: the registry is read and the cells of the footprints written.
UboBuildings(t) ==
  /\ pc[t] = "ubo_buildings"
  /\ mutex = t
  /\ obstacles' = BuildingPass(obstacles)
  /\ Goto(t, "ubo_store")
  /\ UNCHANGED << obstaclesDirty, gridOffset, searchVars, pipeVars, srcVars, histVars,
                  mutex, req, result >>
  /\ UNCHANGED fetchVars

\* Lines 69-114: the rebuild pass, loop by loop.
UboFill(t) == UboClear(t) \/ UboTerrain(t) \/ UboBuildings(t)

\* Lines 116-117: the flag is cleared and the lock released.
UboStore(t) ==
  /\ pc[t] = "ubo_store"
  /\ mutex = t
  /\ obstaclesDirty' = FALSE
  /\ mutex' = NoThread
  /\ Goto(t, "fp_lock")
  /\ UNCHANGED << obstacles, gridOffset, searchVars, pipeVars, srcVars, histVars, req,
                  result >>
  /\ UNCHANGED fetchVars

\* findPath entering findPathInternal without waiting for m_mutex.
FpLock_NoWait(t) ==
  /\ pc[t] = "fp_lock"
  /\ mutex' = t
  /\ Goto(t, "fpi_begin")
  /\ UNCHANGED << gridVars, searchVars, pipeVars, srcVars, histVars, req, result >>
  /\ UNCHANGED fetchVars

\* Line 126: the lock of findPath.
FpLock(t) ==
  /\ pc[t] = "fp_lock"
  /\ mutex = NoThread
  /\ mutex' = t
  /\ Goto(t, "fpi_begin")
  /\ UNCHANGED << gridVars, searchVars, pipeVars, srcVars, histVars, req, result >>
  /\ UNCHANGED fetchVars

(***************************************************************************)
(* findPathInternal, one action per step of the thread that holds m_mutex. *)
(***************************************************************************)
\* What a finished findPath does with its return value: a caller keeps it, the
\* worker goes on to append it to the result queue.  The lock_guard of line
\* 126 unlocks.
Return(t, path) ==
  /\ result' = [result EXCEPT ![t] = path]
  /\ Goto(t, IF t = "worker" THEN "w_push" ELSE "idle")
  /\ mutex' = NoThread

\* Lines 158-178: the early returns, the new generation and the seeding.
FpiBegin(t) ==
  /\ pc[t] = "fpi_begin"
  /\ mutex = t
  /\ LET start == req[t].start
         end   == req[t].end
     IN IF ~isWalkable(start.x, start.y) \/ ~isWalkable(end.x, end.y)
        THEN /\ Return(t, << >>)
             /\ UNCHANGED searchVars
        ELSE IF toIndex(start) = toIndex(end)
        THEN /\ Return(t, << start >>)
             /\ UNCHANGED searchVars
        ELSE \E s4 \in { LET s0 == nextGeneration(Store)
                              gen == s0.generationCounter
                              s1 == [ s0 EXCEPT !.openHeap = << >> ]
                              s2 == setGCost(s1, toIndex(start), gen, 0)
                              s3 == setParent(s2, toIndex(start), gen, toIndex(start))
                          IN pushOpenNode(s3, QueueNode(toIndex(start),
                                                        calculateHeuristic(start, end),
                                                        0)) } :
                /\ SetStore(s4)
                /\ generation' = s4.generationCounter
                /\ iterations' = 0
                /\ final_cost' = -1
                /\ Goto(t, "fpi_loop")
                /\ UNCHANGED << result, mutex >>
  /\ UNCHANGED << gridVars, pipeVars, srcVars, histVars, req >>
  /\ UNCHANGED fetchVars

\* Lines 185-232: one turn of the while loop.  The loop is left, for line 234,
\* on the break or when its condition fails at the next test.
FpiLoop(t) ==
  /\ pc[t] = "fpi_loop"
  /\ mutex = t
  /\ openHeap # << >> /\ iterations < max_iterations
  /\ \E popped \in { popOpenNode(Store) } :
       LET current == popped.node
           s0      == popped.store
           end_idx == toIndex(req[t].end)
           stale   == current.gCost > getGCost(s0, current.index, generation)
           closed  == isClosed(s0, current.index, generation)
           atEnd   == current.index = end_idx
           break   == ~stale /\ ~closed /\ atEnd
       IN \E after \in { IF stale \/ closed
                          THEN s0
                          ELSE IF atEnd
                          THEN setClosed(s0, current.index, generation)
                          ELSE ExpandNeighbors(setClosed(s0, current.index, generation),
                                               collectNeighbors(toPoint(current.index)),
                                               1, current, generation, req[t].end) } :
            /\ iterations' = iterations + 1
            /\ SetStore(after)
            /\ final_cost' = IF break THEN current.gCost ELSE final_cost
            /\ Goto(t, IF break \/ after.openHeap = << >>
                                \/ iterations + 1 >= max_iterations
                       THEN "fpi_build" ELSE "fpi_loop")
  /\ UNCHANGED << gridVars, pipeVars, srcVars, histVars, req, result, mutex, generation >>
  /\ UNCHANGED fetchVars

\* Lines 234-241: the empty result, or the path built from the parent links.
FpiBuild(t) ==
  /\ pc[t] = "fpi_build"
  /\ mutex = t
  /\ Return(t, IF final_cost < 0
               THEN << >>
               ELSE buildPath(Store, toIndex(req[t].start), toIndex(req[t].end),
                              generation))
  /\ UNCHANGED << gridVars, searchVars, pipeVars, srcVars, histVars, req >>
  /\ UNCHANGED fetchVars

\* Every step of a findPath call in progress.
FindPathStep(t) ==
  \/ FpCheck(t) \/ UboOuter(t) \/ UboLock(t) \/ UboFill(t) \/ UboStore(t)
  \/ FpLock(t) \/ FpiBegin(t) \/ FpiLoop(t) \/ FpiBuild(t)

(***************************************************************************)
(* The public operations on the grid, called by a thread that is idle.     *)
(***************************************************************************)
Alive == pc["main"] \notin {"d_notify", "d_join", "destroyed"}

\* Thread t is free to make a call, and fewer than `limit` calls were made.
CanCallWithin(t, limit) == pc[t] = "idle" /\ Alive /\ ops < limit

CanCall(t) == CanCallWithin(t, MaxOps)

\* setObstacle without the upper bound on x of line 41.
setObstacle_NoXBound(grid, x, y, isObstacle) ==
  IF x >= 0 /\ y >= 0 /\ y < Height
  THEN [grid EXCEPT ![y * Width + x] = IF isObstacle THEN 1 ELSE 0]
  ELSE grid

\* Lines 40-44.
setObstacle(grid, x, y, isObstacle) ==
  IF x >= 0 /\ x < Width /\ y >= 0 /\ y < Height
  THEN [grid EXCEPT ![y * Width + x] = IF isObstacle THEN 1 ELSE 0]
  ELSE grid

SetObstacle(t, x, y, isObstacle) ==
  /\ CanCall(t)
  /\ obstacles' = setObstacle(obstacles, x, y, isObstacle)
  /\ lastBlocked' = IF ~InBounds(x, y) THEN lastBlocked
                    ELSE IF isObstacle THEN y * Width + x
                    ELSE IF lastBlocked = y * Width + x THEN NoCell
                    ELSE lastBlocked
  /\ avoid' = [ u \in Threads |->
                 IF InBounds(x, y) /\ ~isObstacle /\ avoid[u] = y * Width + x
                 THEN NoCell ELSE avoid[u] ]
  /\ ops' = ops + 1
  /\ UNCHANGED << obstaclesDirty, gridOffset, searchVars, pipeVars, srcVars, mutex, pc,
                  req, result, submitted, fetched, srcVersion, markedVersion,
                  gridVersion, marks, passes, callMark >>
  /\ UNCHANGED fetchVars

\* Lines 35-38.
SetGridOffset(t, offset_x, offset_z) ==
  /\ CanCall(t)
  /\ gridOffset' = [x |-> offset_x, z |-> offset_z]
  /\ ops' = ops + 1
  /\ UNCHANGED << obstacles, obstaclesDirty, searchVars, pipeVars, srcVars, mutex, pc,
                  req, result, submitted, fetched, srcVersion, markedVersion,
                  gridVersion, marks, passes, callMark, lastBlocked, avoid >>
  /\ UNCHANGED fetchVars

\* markObstaclesDirty doing the rebuild at once instead of setting the flag.
MarkObstaclesDirty_Rebuild(t) ==
  /\ CanCall(t)
  /\ obstacles' = RebuiltGrid
  /\ obstaclesDirty' = FALSE
  /\ markedVersion' = srcVersion
  /\ lastBlocked' = NoCell
  /\ avoid' = [ u \in Threads |-> NoCell ]
  /\ marks' = marks + 1
  /\ ops' = ops + 1
  /\ UNCHANGED << gridOffset, searchVars, pipeVars, srcVars, mutex, pc, req,
                  result, submitted, fetched, srcVersion, gridVersion, passes, callMark >>
  /\ UNCHANGED fetchVars

\* Lines 53-55.
MarkObstaclesDirty(t) ==
  /\ CanCall(t)
  /\ obstaclesDirty' = TRUE
  /\ markedVersion' = srcVersion
  /\ lastBlocked' = NoCell
  /\ avoid' = [ u \in Threads |-> NoCell ]
  /\ marks' = marks + 1
  /\ ops' = ops + 1
  /\ UNCHANGED << obstacles, gridOffset, searchVars, pipeVars, srcVars, mutex, pc, req,
                  result, submitted, fetched, srcVersion, gridVersion, passes, callMark >>
  /\ UNCHANGED fetchVars

\* The terrain or the buildings change, outside the engine.
ExternalChange ==
  /\ CanCall("main")
  /\ \E tc \in TerrainConfigs, bc \in BuildingConfigs :
        /\ << tc, bc >> # << terrain, buildings >>
        /\ terrain' = tc
        /\ buildings' = bc
  /\ srcVersion' = srcVersion + 1
  /\ ops' = ops + 1
  /\ UNCHANGED << gridVars, searchVars, pipeVars, mutex, pc, req, result, submitted,
                  fetched, markedVersion, gridVersion, marks, passes, callMark, lastBlocked, avoid >>
  /\ UNCHANGED fetchVars

\* Lines 119-120: thread t calls findPath(start, end), one of at most `limit`
\* calls.
FindPathWithin(t, start, end, limit) ==
  /\ CanCallWithin(t, limit)
  /\ Enter(t, start, end)
  /\ Goto(t, "fp_check")
  /\ ops' = ops + 1
  /\ UNCHANGED << gridVars, searchVars, pipeVars, srcVars, mutex, submitted, fetched,
                  srcVersion, markedVersion, gridVersion, marks, passes >>
  /\ UNCHANGED fetchVars

FindPath(t, start, end) == FindPathWithin(t, start, end, MaxOps)

\* Lines 130-134: std::async starts a thread that calls findPath(start, end).
FindPathAsync(t, start, end) ==
  /\ CanCall(t)
  /\ pc["task"] = "unborn"
  /\ Enter("task", start, end)
  /\ Goto("task", "fp_check")
  /\ ops' = ops + 1
  /\ UNCHANGED << gridVars, searchVars, pipeVars, srcVars, mutex, submitted, fetched,
                  srcVersion, markedVersion, gridVersion, marks, passes >>
  /\ UNCHANGED fetchVars

(***************************************************************************)
(* The request pipeline.                                                   *)
(***************************************************************************)
PathRequest(id, start, end) == [request_id |-> id, start |-> start, end |-> end]

PathResult(id, path) == [request_id |-> id, path |-> path]

RequestIds(queue) == [ k \in 1 .. Len(queue) |-> queue[k].request_id ]

\* A push at the front, as a stack would do it.
QueuePush_Front(queue, entry) == << entry >> \o queue

\* std::queue::push.
QueuePush(queue, entry) == Append(queue, entry)

\* std::queue::front.
QueueFront(queue) == Head(queue)

\* A pop that removes nothing.
QueuePop_Keep(queue) == queue

\* std::queue::pop.
QueuePop(queue) == Tail(queue)

\* A notification that wakes nobody.
Notify_Lost(p) == p

\* notify_one and notify_all of m_requestCondition on the positions p: the
\* worker, the only thread that ever waits, leaves the wait if it is in it.
Notify(p) ==
  IF p["worker"] = "w_blocked" THEN [p EXCEPT !["worker"] = "w_lock"] ELSE p

\* Lines 138-141: the push under m_requestMutex.
SubmitPush(t, request_id, start, end) ==
  /\ pc[t] = "idle" /\ Alive
  /\ Len(submitted) < MaxRequests
  /\ \A k \in 1 .. Len(submitted) : submitted[k] # request_id
  /\ requestMutex = NoThread
  /\ requestQueue' = QueuePush(requestQueue, PathRequest(request_id, start, end))
  /\ submitted' = Append(submitted, request_id)
  /\ Goto(t, "sp_notify")
  /\ UNCHANGED << gridVars, searchVars, srcVars, mutex, req, result, requestMutex,
                  resultQueue, stopWorker, request, ops, fetched, srcVersion,
                  markedVersion, gridVersion, marks, passes, callMark, lastBlocked, avoid >>
  /\ UNCHANGED fetchVars

\* Line 142: notify_one, after the lock is released.
SubmitNotify(t) ==
  /\ pc[t] = "sp_notify"
  /\ pc' = Notify([pc EXCEPT ![t] = "idle"])
  /\ UNCHANGED << gridVars, searchVars, pipeVars, srcVars, histVars, mutex, req, result >>
  /\ UNCHANGED fetchVars

\* Lines 147-148: the local list, and the lock_guard on m_resultMutex.
FetchLock(t) ==
  /\ pc[t] = "idle" /\ Alive
  /\ resultMutex = NoThread
  /\ resultMutex' = t
  /\ results' = << >>
  /\ fetchSnapshot' = resultQueue
  /\ Goto(t, "fc_loop")
  /\ UNCHANGED << gridVars, searchVars, pipeVars, srcVars, histVars, mutex, req, result >>

\* Lines 149-152: one turn of the loop moves the front of the queue.
FetchMove(t) ==
  /\ pc[t] = "fc_loop"
  /\ resultQueue # << >>
  /\ results' = Append(results, QueueFront(resultQueue))
  /\ resultQueue' = QueuePop(resultQueue)
  /\ UNCHANGED << gridVars, searchVars, srcVars, histVars, mutex, pc, req, result,
                  requestMutex, requestQueue, stopWorker, request, resultMutex,
                  fetchSnapshot >>

\* Line 153: the queue is empty, the list is returned and the lock released.
FetchReturn(t) ==
  /\ pc[t] = "fc_loop"
  /\ resultQueue = << >>
  /\ fetched' = fetched \o RequestIds(results)
  /\ results' = << >>
  /\ resultMutex' = NoThread
  /\ Goto(t, "idle")
  /\ UNCHANGED << gridVars, searchVars, pipeVars, srcVars, mutex, req, result, ops,
                  submitted, srcVersion, markedVersion, gridVersion, marks, passes, callMark,
                  lastBlocked, avoid, fetchSnapshot >>

\* Lines 145-154.
FetchCompletedPaths(t) == FetchLock(t) \/ FetchMove(t) \/ FetchReturn(t)

\* The unique_lock kept over the call of findPath.
RequestLockAfterPop_Held == "worker"

\* Line 469: the unique_lock of line 456 leaves its scope before findPath is
\* called.
RequestLockAfterPop == NoThread

\* workerLoop leaving on the stop flag alone, requests still queued.
WorkerCheck_StopFirst ==
  /\ pc["worker"] = "w_lock"
  /\ requestMutex = NoThread
  /\ IF stopWorker \/ requestQueue # << >>
     THEN IF stopWorker
          THEN /\ Goto("worker", "w_exit")
               /\ UNCHANGED << pipeVars, req, result, callMark, lastBlocked, avoid >>
          ELSE /\ request' = QueueFront(requestQueue)
               /\ requestQueue' = QueuePop(requestQueue)
               /\ Enter("worker", QueueFront(requestQueue).start,
                        QueueFront(requestQueue).end)
               /\ Goto("worker", "fp_check")
               /\ requestMutex' = RequestLockAfterPop
               /\ UNCHANGED << resultQueue, stopWorker >>
     ELSE /\ requestMutex' = "worker"
          /\ Goto("worker", "w_wait")
          /\ UNCHANGED << requestQueue, resultQueue, stopWorker, request, req, result,
                          callMark, lastBlocked, avoid >>
  /\ UNCHANGED << gridVars, searchVars, srcVars, mutex, ops, submitted, fetched,
                  srcVersion, markedVersion, gridVersion, marks, passes >>
  /\ UNCHANGED fetchVars

\* Lines 456-469: the worker takes m_requestMutex and tests the predicate of
\* the wait.  When it holds, the worker leaves the loop (stop, nothing queued)
\* or pops a request, unlocks and calls findPath; otherwise it is about to
\* wait, the mutex still held.
WorkerCheck ==
  /\ pc["worker"] = "w_lock"
  /\ requestMutex = NoThread
  /\ IF stopWorker \/ requestQueue # << >>
     THEN IF stopWorker /\ requestQueue = << >>
          THEN /\ Goto("worker", "w_exit")
               /\ UNCHANGED << pipeVars, req, result, callMark, lastBlocked, avoid >>
          ELSE /\ request' = QueueFront(requestQueue)
               /\ requestQueue' = QueuePop(requestQueue)
               /\ Enter("worker", QueueFront(requestQueue).start,
                        QueueFront(requestQueue).end)
               /\ Goto("worker", "fp_check")
               /\ requestMutex' = RequestLockAfterPop
               /\ UNCHANGED << resultQueue, stopWorker >>
     ELSE /\ requestMutex' = "worker"
          /\ Goto("worker", "w_wait")
          /\ UNCHANGED << requestQueue, resultQueue, stopWorker, request, req, result,
                          callMark, lastBlocked, avoid >>
  /\ UNCHANGED << gridVars, searchVars, srcVars, mutex, ops, submitted, fetched,
                  srcVersion, markedVersion, gridVersion, marks, passes >>
  /\ UNCHANGED fetchVars

\* condition_variable::wait: the mutex is released and the thread blocks, in
\* one step.
WorkerWait ==
  /\ pc["worker"] = "w_wait"
  /\ requestMutex = "worker"
  /\ requestMutex' = NoThread
  /\ Goto("worker", "w_blocked")
  /\ UNCHANGED << gridVars, searchVars, srcVars, histVars, mutex, req, result,
                  requestQueue, resultQueue, stopWorker, request >>
  /\ UNCHANGED fetchVars

\* A wait may end with no notification (a spurious wakeup).
WorkerSpuriousWake ==
  /\ pc["worker"] = "w_blocked"
  /\ Goto("worker", "w_lock")
  /\ UNCHANGED << gridVars, searchVars, pipeVars, srcVars, histVars, mutex, req, result >>
  /\ UNCHANGED fetchVars

\* The result appended without taking m_resultMutex.
WorkerPush_NoLock ==
  /\ pc["worker"] = "w_push"
  /\ resultQueue' = QueuePush(resultQueue, PathResult(request.request_id, result["worker"]))
  /\ Goto("worker", "w_lock")
  /\ UNCHANGED << gridVars, searchVars, srcVars, histVars, mutex, req, result,
                  requestMutex, requestQueue, stopWorker, request >>
  /\ UNCHANGED fetchVars

\* Lines 473-476: the result is appended under m_resultMutex.
WorkerPush ==
  /\ resultMutex = NoThread
  /\ pc["worker"] = "w_push"
  /\ resultQueue' = QueuePush(resultQueue, PathResult(request.request_id, result["worker"]))
  /\ Goto("worker", "w_lock")
  /\ UNCHANGED << gridVars, searchVars, srcVars, histVars, mutex, req, result,
                  requestMutex, requestQueue, stopWorker, request >>
  /\ UNCHANGED fetchVars

\* The steps of workerLoop that the scheduler owes the worker.
WorkerRun == WorkerCheck \/ WorkerWait \/ WorkerPush \/ FindPathStep("worker")

(***************************************************************************)
(* The destructor, run by main once no other caller is inside the engine.  *)
(***************************************************************************)
\* Line 28.
DtorStore ==
  /\ pc["main"] = "idle"
  /\ pc["peer"] = "idle"
  /\ pc["task"] \in {"idle", "unborn"}
  /\ stopWorker' = TRUE
  /\ Goto("main", "d_notify")
  /\ UNCHANGED << gridVars, searchVars, srcVars, histVars, mutex, req, result,
                  requestMutex, requestQueue, resultQueue, request >>
  /\ UNCHANGED fetchVars

\* Line 29.
DtorNotify ==
  /\ pc["main"] = "d_notify"
  /\ pc' = Notify([pc EXCEPT !["main"] = "d_join"])
  /\ UNCHANGED << gridVars, searchVars, pipeVars, srcVars, histVars, mutex, req, result >>
  /\ UNCHANGED fetchVars

\* Lines 30-32: join returns once the worker has left workerLoop.
DtorJoin ==
  /\ pc["main"] = "d_join"
  /\ pc["worker"] = "w_exit"
  /\ Goto("main", "destroyed")
  /\ UNCHANGED << gridVars, searchVars, pipeVars, srcVars, histVars, mutex, req, result >>
  /\ UNCHANGED fetchVars

(***************************************************************************)
(* Initial states.                                                         *)
(***************************************************************************)
NoRequest == PathRequest(0, NoPoint, NoPoint)

\* What every initial state shares: empty queues, no call made yet, the
\* sources in their first state.
InitCommon ==
  /\ gridOffset = [x |-> 0, z |-> 0]
  /\ generationCounter = FreshStore.generationCounter
  /\ closedGeneration = FreshStore.closedGeneration
  /\ gCostGeneration = FreshStore.gCostGeneration
  /\ gCostValues = FreshStore.gCostValues
  /\ parentGeneration = FreshStore.parentGeneration
  /\ parentValues = FreshStore.parentValues
  /\ openHeap = FreshStore.openHeap
  /\ requestMutex = NoThread
  /\ requestQueue = << >>
  /\ resultQueue = << >>
  /\ stopWorker = FALSE
  /\ request = NoRequest
  /\ resultMutex = NoThread
  /\ results = << >>
  /\ fetchSnapshot = << >>
  /\ result = [t \in Threads |-> NoResult]
  /\ generation = 0
  /\ iterations = 0
  /\ final_cost = -1
  /\ terrain = Terrain(TRUE, Width, Height, {})
  /\ buildings = {}
  /\ ops = 0
  /\ marks = 1
  /\ submitted = << >>
  /\ fetched = << >>
  /\ srcVersion = 0
  /\ markedVersion = 0
  /\ callMark = [t \in Threads |-> 0]
  /\ lastBlocked = NoCell
  /\ avoid = [t \in Threads |-> NoCell]

\* Lines 19-25: the engine as the constructor leaves it, the worker started.
InitEngine ==
  /\ InitCommon
  /\ obstacles = [i \in CellIndices |-> 0]
  /\ obstaclesDirty = TRUE
  /\ mutex = NoThread
  /\ pc = [t \in Threads |-> IF t = "worker" THEN "w_lock"
                             ELSE IF t = "task" THEN "unborn" ELSE "idle"]
  /\ req = [t \in Threads |-> [start |-> NoPoint, end |-> NoPoint]]
  /\ gridVersion = -1
  /\ passes = 0

Points ==
  { Point(px, py) : px \in 0 .. (Width - 1), py \in 0 .. (Height - 1) }
    \cup { Point(-1, 0), Point(Width, 0), Point(0, -1), Point(0, Height) }

\* The cells earlier setObstacle calls may have blocked: the three cells of
\* column 1, which together cut column 0 off, and one cell in the open.
WallCells == { Point(1, 0), Point(1, 1), Point(1, 2), Point(7, 1) }

BlockedSets == { { toIndex(p) : p \in B } : B \in SUBSET WallCells }

GridOf(B) == [i \in CellIndices |-> IF i \in B THEN 1 ELSE 0]

\* A caller has taken m_mutex for findPathInternal(start, end) on a clean grid
\* that earlier setObstacle calls have shaped; the worker is in its wait.
InitSearch ==
  /\ InitCommon
  /\ obstacles \in { GridOf(B) : B \in BlockedSets }
  /\ obstaclesDirty = FALSE
  /\ mutex = "main"
  /\ pc = [t \in Threads |-> IF t = "main" THEN "fpi_begin"
                             ELSE IF t = "task" THEN "unborn" ELSE "w_blocked"]
  /\ \E s \in Points, e \in Points :
        req = [t \in Threads |-> IF t = "main" THEN [start |-> s, end |-> e]
                                 ELSE [start |-> NoPoint, end |-> NoPoint]]
  /\ gridVersion = 0
  /\ passes = 1

(***************************************************************************)
(* Specifications.                                                         *)
(***************************************************************************)
\* One search on every grid of the family and every pair of points.
NextSearch == FpiBegin("main") \/ FpiLoop("main") \/ FpiBuild("main")

SpecSearch == InitSearch /\ [][NextSearch]_vars

\* A series of searches by one caller, long enough for the generation counter
\* to wrap: short paths and a path across the grid, so that every call takes
\* a generation.
MaxSearches == GenModulus + 1

SeriesPairs ==
  { << Point(0, 0), Point(2, 0) >>,
    << Point(Width - 1, Height - 1), Point(0, 0) >>,
    << Point(5, 1), Point(3, 2) >> }

NextSeries ==
  \/ \E q \in SeriesPairs : FindPathWithin("main", q[1], q[2], MaxSearches)
  \/ FindPathStep("main")

SpecSeries == InitEngine /\ [][NextSeries]_vars

\* The points the callers of the concurrent specifications ask paths between,
\* and the cells they edit: (1, 0) lies on the way, (Width, 0) off the grid.
QueryPairs == { << Point(0, 0), Point(2, 0) >>, << Point(2, 0), Point(0, 0) >> }
EditPoints ==
  { Point(1, 0), Point(Width, 0), Point(-1, 1), Point(1, -1), Point(1, Height) }
Offsets == { 0, 1 }
RequestIdSet == 1 .. MaxRequests

\* The grid and the synchronous facade: main edits, marks and asks for paths,
\* a task started by findPathAsync runs beside it, the worker goes to sleep.
NextGrid ==
  \/ \E p \in EditPoints, b \in BOOLEAN : SetObstacle("main", p.x, p.y, b)
  \/ \E o \in Offsets : SetGridOffset("main", o, 0)
  \/ MarkObstaclesDirty("main")
  \/ ExternalChange
  \/ \E q \in QueryPairs : FindPath("main", q[1], q[2])
  \/ \E q \in QueryPairs : FindPathAsync("main", q[1], q[2])
  \/ \E t \in {"main", "task"} : FindPathStep(t)
  \/ WorkerCheck
  \/ WorkerWait

SpecGrid == InitEngine /\ [][NextGrid]_vars

\* Every kind of searcher at once: main and peer call findPath, main starts
\* an async task and submits requests that the worker serves, all for the
\* same path.
MixedPair == << Point(0, 0), Point(2, 0) >>

NextMixed ==
  \/ \E t \in Callers : FindPath(t, MixedPair[1], MixedPair[2])
  \/ FindPathAsync("main", MixedPair[1], MixedPair[2])
  \/ \E id \in RequestIdSet : SubmitPush("main", id, MixedPair[1], MixedPair[2])
  \/ SubmitNotify("main")
  \/ \E t \in Threads : FindPathStep(t)
  \/ WorkerCheck
  \/ WorkerWait
  \/ WorkerPush

SpecMixed == InitEngine /\ [][NextMixed]_vars

\* Every user of the three mutexes at once: peer calls findPath, main starts
\* an async task, submits requests and polls for results, the worker serves.
NextLocks ==
  \/ FindPath("peer", MixedPair[1], MixedPair[2])
  \/ FindPathAsync("main", MixedPair[1], MixedPair[2])
  \/ \E id \in RequestIdSet : SubmitPush("main", id, MixedPair[1], MixedPair[2])
  \/ SubmitNotify("main")
  \/ FetchCompletedPaths("main")
  \/ \E t \in Threads : FindPathStep(t)
  \/ WorkerCheck
  \/ WorkerWait
  \/ WorkerPush

SpecLocks == InitEngine /\ [][NextLocks]_vars

\* The request pipeline: callers submit and poll, the worker serves.
NextPipeline ==
  \/ \E t \in Callers, id \in RequestIdSet, q \in QueryPairs :
        SubmitPush(t, id, q[1], q[2])
  \/ \E t \in Callers : SubmitNotify(t)
  \/ \E t \in Callers : FetchCompletedPaths(t)
  \/ WorkerRun
  \/ WorkerSpuriousWake

\* The scheduler runs every thread that can take a step, and the worker,
\* trying m_resultMutex against callers that take it again and again, gets it;
\* a wait is not owed a spurious wakeup.
FairPipeline ==
  /\ WF_vars(WorkerRun)
  /\ SF_vars(WorkerPush)
  /\ \A t \in Callers : WF_vars(SubmitNotify(t)) /\ WF_vars(FetchCompletedPaths(t))

SpecPipeline == InitEngine /\ [][NextPipeline]_vars /\ FairPipeline

\* The pipeline with the destructor.
NextTeardown ==
  \/ NextPipeline
  \/ DtorStore
  \/ DtorNotify
  \/ DtorJoin

FairTeardown ==
  /\ FairPipeline
  /\ WF_vars(DtorNotify)
  /\ WF_vars(DtorJoin)

SpecTeardown == InitEngine /\ [][NextTeardown]_vars /\ FairTeardown

----
(***************************************************************************)
(* Properties of one search (SpecSearch).                                  *)
(***************************************************************************)
Returned(t) == pc[t] = "idle" /\ result[t] # NoResult

\* The moves the search admits from p: the neighbours collectNeighbors keeps
\* (in bounds, no diagonal past a blocked corner) that are walkable.
Moves(p) ==
  LET nb == collectNeighbors(p)
  IN { nb[k] : k \in { j \in DOMAIN nb : isWalkable(nb[j].x, nb[j].y) } }

\* Breadth-first search over the same grid with the same move rule: the
\* number of cells of a shortest path to e from the cells of `frontier`, which
\* are `d` cells into their paths, or 0 when e cannot be reached.
RECURSIVE BfsLength(_, _, _, _)
BfsLength(frontier, seen, e, d) ==
  IF e \in frontier
  THEN d
  ELSE LET next == UNION { Moves(p) : p \in frontier } \ seen
       IN IF next = {} THEN 0 ELSE BfsLength(next, seen \cup next, e, d + 1)

ShortestLength(s, e) ==
  IF ~isWalkable(s.x, s.y) \/ ~isWalkable(e.x, e.y)
  THEN 0
  ELSE BfsLength({s}, {s}, e, 1)

PathWellFormed(path, s, e) ==
  /\ path[1] = s
  /\ path[Len(path)] = e
  /\ \A k \in 1 .. Len(path) : isWalkable(path[k].x, path[k].y)
  /\ \A k \in 1 .. (Len(path) - 1) :
        /\ path[k] # path[k + 1]
        /\ Abs(path[k].x - path[k + 1].x) <= 1
        /\ Abs(path[k].y - path[k + 1].y) <= 1

\* C1: a non-empty path returned by findPath starts at start, ends at end,
\* holds only walkable in-bounds cells, and each two consecutive cells are
\* distinct 8-neighbours.
C1_PathWellFormed ==
  \A t \in Threads :
    (Returned(t) /\ result[t] # << >>) =>
       PathWellFormed(result[t], req[t].start, req[t].end)

\* A path of at least four cells was returned on a grid with a blocked cell.
C1_Witness ==
  /\ Returned("main")
  /\ Len(result["main"]) >= 4
  /\ \E i \in CellIndices : obstacles[i] = 1

\* C2: when end is reachable from start, the returned path has as many cells
\* as a shortest path found by breadth-first search with the same move rule.
C2_PathIsShortest ==
  \A t \in Threads :
    (Returned(t) /\ ShortestLength(req[t].start, req[t].end) > 0) =>
       Len(result[t]) = ShortestLength(req[t].start, req[t].end)

\* C3: when end is reachable from start, findPath returns a non-empty path:
\* the budget of Width * Height loop turns is not used up first.
C3_BudgetSuffices ==
  \A t \in Threads :
    (Returned(t) /\ ShortestLength(req[t].start, req[t].end) > 0) =>
       result[t] # << >>


\* A cell of the grid that is not blocked, read off m_obstacles.
Free(p) == InBounds(p.x, p.y) /\ obstacles[p.y * Width + p.x] = 0

ScratchArrays ==
  << generationCounter, closedGeneration, gCostGeneration, gCostValues,
     parentGeneration, parentValues, openHeap >>

\* C11: when start or end is blocked or out of bounds, findPath returns the
\* empty path, and the step that does so leaves the generation counter and
\* every scratch array as they were.
C11_RejectedWithoutSearch ==
  [][ \A t \in Threads :
        ( /\ pc[t] = "fpi_begin"
          /\ pc'[t] # "fpi_begin"
          /\ ~Free(req[t].start) \/ ~Free(req[t].end) )
        => (result'[t] = << >> /\ UNCHANGED ScratchArrays) ]_vars

\* A call with a start off the grid has returned the empty path.
C11_Witness ==
  /\ Returned("main")
  /\ ~InBounds(req["main"].start.x, req["main"].start.y)
  /\ Free(req["main"].end)
  /\ result["main"] = << >>
  /\ generationCounter = 0

\* C12: findPath(p, p) on a walkable cell p of the grid returns the path of
\* the one element p.
C12_SameCellPath ==
  \A t \in Threads :
    (Returned(t) /\ req[t].start = req[t].end /\ Free(req[t].start)) =>
       result[t] = << req[t].start >>

\* findPath(p, p) has returned for a cell p in column 0, beside a blocked one.
C12_Witness ==
  /\ Returned("main")
  /\ req["main"].start = req["main"].end
  /\ req["main"].start = Point(0, 0)
  /\ obstacles[toIndex(Point(1, 0))] = 1
  /\ result["main"] = << Point(0, 0) >>

\* C13: when start and end are walkable and no sequence of admitted moves
\* leads from one to the other, findPath returns the empty path.
C13_DisconnectedIsEmpty ==
  \A t \in Threads :
    ( /\ Returned(t)
      /\ Free(req[t].start) /\ Free(req[t].end)
      /\ ShortestLength(req[t].start, req[t].end) = 0 )
    => result[t] = << >>

\* A search from column 0, cut off by the blocked column 1, to a cell on the
\* other side has run and returned the empty path.
C13_Witness ==
  /\ Returned("main")
  /\ req["main"].start.x = 0 /\ req["main"].end.x = 2
  /\ Free(req["main"].start) /\ Free(req["main"].end)
  /\ \A y \in 0 .. (Height - 1) : obstacles[y * Width + 1] = 1
  /\ iterations > 0
  /\ result["main"] = << >>

\* C14: the loop of a search makes at most max(Width * Height, 1) turns and
\* the search then returns: the count of turns never passes the budget, a
\* thread is at a turn of the loop only with turns left, and every turn that
\* stays in the loop adds one to the count.
C14_SearchTerminates ==
  /\ [](iterations <= (IF Width * Height > 1 THEN Width * Height ELSE 1))
  /\ [](\A t \in Threads :
          pc[t] = "fpi_loop" =>
             iterations < (IF Width * Height > 1 THEN Width * Height ELSE 1))
  /\ [][ \A t \in Threads :
           (pc[t] = "fpi_loop" /\ pc'[t] = "fpi_loop") => iterations' = iterations + 1 ]_vars

\* A search has used the whole budget and returned.
C14_Witness ==
  /\ Returned("main")
  /\ iterations = Width * Height

\* C17: in a returned path, both cells that flank a diagonal move are
\* walkable.
C17_NoCornerCut ==
  \A t \in Threads :
    (Returned(t) /\ result[t] # << >>) =>
       \A k \in 1 .. (Len(result[t]) - 1) :
          LET a == result[t][k]
              b == result[t][k + 1]
          IN (a.x # b.x /\ a.y # b.y) =>
                (Free(Point(a.x, b.y)) /\ Free(Point(b.x, a.y)))

\* A returned path goes around the blocked cell (7, 1): it holds a cell
\* beside it and a diagonal move.
C17_Witness ==
  /\ Returned("main")
  /\ result["main"] # << >>
  /\ obstacles[toIndex(Point(7, 1))] = 1
  /\ \E k \in 1 .. Len(result["main"]) : result["main"][k] = Point(6, 1)
  /\ \E k \in 1 .. (Len(result["main"]) - 1) :
        /\ result["main"][k].x # result["main"][k + 1].x
        /\ result["main"][k].y # result["main"][k + 1].y

----
\* C25: on a grid without obstacles the heuristic from start to end is not
\* more than the least number of moves from start to end, a move being a step
\* to one of the eight neighbours.
C25_HeuristicAdmissible ==
  \A t \in Threads :
    (pc[t] = "fpi_loop" /\ \A i \in CellIndices : obstacles[i] = 0) =>
       calculateHeuristic(req[t].start, req[t].end)
         <= ShortestLength(req[t].start, req[t].end) - 1

\* Entry a comes before entry b: smaller fCost, or equal fCost and smaller
\* gCost.
ComesBefore(a, b) == a.fCost < b.fCost \/ (a.fCost = b.fCost /\ a.gCost < b.gCost)

EntryCount(heap, e) == Cardinality({ k \in 1 .. Len(heap) : heap[k] = e })

Entries(heap) == { heap[k] : k \in 1 .. Len(heap) }

\* The cells whose g-cost the step writes.
Relaxed ==
  { i \in CellIndices :
      gCostValues'[i] # gCostValues[i] \/ gCostGeneration'[i] # gCostGeneration[i] }

\* C26: the open list is a min-heap under (fCost, then gCost): no entry comes
\* before the entry above it; popOpenNode returns an entry that no remaining
\* entry comes before and removes that entry and no other; and a loop turn
\* leaves the heap with the entries that remained after its pop and one entry
\* more for each cell it relaxed, pushOpenNode adding exactly one.
C26_OpenListIsMinHeap ==
  /\ [](\A k \in 2 .. Len(openHeap) : ~ComesBefore(openHeap[k], openHeap[k \div 2]))
  /\ [](openHeap # << >> =>
          \E p \in { popOpenNode(Store) } :
            /\ \A k \in 1 .. Len(p.store.openHeap) : ~ComesBefore(p.store.openHeap[k], p.node)
            /\ Len(p.store.openHeap) = Len(openHeap) - 1
            /\ \A e \in Entries(openHeap) :
                 EntryCount(openHeap, e) =
                   EntryCount(p.store.openHeap, e) + (IF e = p.node THEN 1 ELSE 0))
  /\ [][ \A t \in Threads :
           (pc[t] = "fpi_loop" /\ mutex = t /\ iterations' = iterations + 1) =>
             \E rest \in { popOpenNode(Store).store.openHeap } :
               LET pushed == { QueueNode(i, gCostValues'[i]
                                              + calculateHeuristic(toPoint(i), req[t].end),
                                         gCostValues'[i]) : i \in Relaxed }
               IN /\ Len(openHeap') = Len(rest) + Cardinality(Relaxed)
                  /\ \A e \in Entries(openHeap') \cup Entries(rest) :
                       EntryCount(openHeap', e) =
                         EntryCount(rest, e) + (IF e \in pushed THEN 1 ELSE 0) ]_vars

\* A loop turn has pushed onto a heap of several entries, two of them with
\* the same fCost.
C26_Witness ==
  /\ pc["main"] = "fpi_loop"
  /\ iterations >= 2
  /\ Len(openHeap) >= 4
  /\ \E j, k \in 1 .. Len(openHeap) :
       j # k /\ openHeap[j].fCost = openHeap[k].fCost /\ openHeap[j].gCost # openHeap[k].gCost

ClosedCells == { i \in CellIndices : closedGeneration[i] = generation }

\* C27: a loop turn whose popped entry is stale (its gCost above the cell's
\* g-cost) or whose cell is closed changes nothing but the heap, from which
\* the entry is gone; any other turn closes the popped entry's cell, which was
\* not closed, and no other cell; so a cell is closed, and expanded, at most
\* once in a search.
C27_ClosedAtMostOnce ==
  [][ \A t \in Threads :
        (pc[t] = "fpi_loop" /\ mutex = t /\ iterations' = iterations + 1) =>
          LET current == openHeap[1]
              best    == IF gCostGeneration[current.index] = generation
                         THEN gCostValues[current.index] ELSE INT_MAX
              discard == current.gCost > best \/ current.index \in ClosedCells
          IN IF discard
             THEN /\ UNCHANGED << closedGeneration, gCostGeneration, gCostValues,
                                  parentGeneration, parentValues >>
                  /\ Len(openHeap') = Len(openHeap) - 1
             ELSE /\ closedGeneration' = [closedGeneration EXCEPT ![current.index] = generation]
                  /\ \A i \in Relaxed : i \notin ClosedCells /\ i # current.index ]_vars

\* More entries were popped than cells are closed: an entry was discarded.
C27_Witness ==
  /\ pc["main"] = "fpi_loop"
  /\ generation # 0
  /\ iterations > Cardinality(ClosedCells)

\* The parent links lead from cell i to start in exactly n steps, each link
\* stamped with the generation of the search, not negative and not to the
\* cell itself.
RECURSIVE ChainReaches(_, _, _)
ChainReaches(i, startIndex, n) ==
  IF i = startIndex
  THEN n = 0
  ELSE /\ n > 0
       /\ parentGeneration[i] = generation
       /\ parentValues[i] >= 0
       /\ parentValues[i] # i
       /\ ChainReaches(parentValues[i], startIndex, n - 1)

\* C28: when the loop has closed the end cell with g-cost c, the parent links
\* lead from end to start in c steps without a missing, negative or
\* self-referencing link, and buildPath returns a path of c + 1 cells.
C28_ReconstructionSucceeds ==
  \A t \in Threads :
    /\ (pc[t] = "fpi_build" /\ final_cost >= 0) =>
         /\ toIndex(req[t].end) \in ClosedCells
         /\ gCostValues[toIndex(req[t].end)] = final_cost
         /\ ChainReaches(toIndex(req[t].end), toIndex(req[t].start), final_cost)
         /\ Len(buildPath(Store, toIndex(req[t].start), toIndex(req[t].end), generation))
              = final_cost + 1
    /\ (Returned(t) /\ final_cost >= 0) => Len(result[t]) = final_cost + 1

\* The loop has closed the end cell four moves from start.
C28_Witness ==
  /\ Returned("main")
  /\ final_cost >= 4
  /\ Len(result["main"]) = final_cost + 1

\* The g-cost of cell i as the search reads it: INT_MAX without the stamp of
\* its generation.
GCostOf(i) == IF gCostGeneration[i] = generation THEN gCostValues[i] ELSE INT_MAX

\* Cell i has a parent link in the generation of the search.
Linked(i) == parentGeneration[i] = generation

\* C32: within one search a loop turn writes neither the g-cost nor the
\* parent of a closed cell; every write of a g-cost lowers it (the turn pushes
\* one entry for each write and each write leaves a smaller g-cost, with a new
\* parent only then); and for every linked cell but start the parent is a
\* closed cell whose g-cost is one less, so the links lead to start, whose
\* parent is start itself and whose g-cost is 0, in as many steps as the
\* g-cost says.
C32_ClosedCellsAreFinal ==
  /\ [][ \A t \in Threads :
           (pc[t] = "fpi_loop" /\ mutex = t /\ iterations' = iterations + 1) =>
             /\ \A i \in ClosedCells :
                  /\ gCostValues'[i] = gCostValues[i]
                  /\ gCostGeneration'[i] = gCostGeneration[i]
                  /\ parentValues'[i] = parentValues[i]
                  /\ parentGeneration'[i] = parentGeneration[i]
             /\ \A i \in Relaxed : GCostOf(i)' < GCostOf(i)
             /\ \A i \in CellIndices \ Relaxed :
                  /\ parentValues'[i] = parentValues[i]
                  /\ parentGeneration'[i] = parentGeneration[i]
             /\ Len(openHeap') = Len(openHeap) - 1 + Cardinality(Relaxed) ]_vars
  /\ [](\A t \in Threads :
          (pc[t] \in {"fpi_loop", "fpi_build"} /\ mutex = t) =>
            \E start_idx \in { toIndex(req[t].start) } :
              /\ Linked(start_idx)
              /\ parentValues[start_idx] = start_idx
              /\ GCostOf(start_idx) = 0
              /\ \A i \in CellIndices \ { start_idx } :
                   Linked(i) =>
                     /\ parentValues[i] \in ClosedCells
                     /\ GCostOf(parentValues[i]) = GCostOf(i) - 1
                     /\ ChainReaches(i, start_idx, GCostOf(i)))

\* A cell four moves from start has its link, the search has lowered a g-cost
\* it had written before, and cells with links are closed and open.
C32_Witness ==
  /\ pc["main"] = "fpi_loop"
  /\ \E i \in CellIndices : Linked(i) /\ GCostOf(i) >= 4
  /\ \E i \in CellIndices \ ClosedCells : Linked(i)
  /\ \E k \in 1 .. Len(openHeap) : openHeap[k].gCost > GCostOf(openHeap[k].index)

(***************************************************************************)
(* Properties of a series of searches (SpecSeries).                        *)
(***************************************************************************)
\* The step of thread t that takes a new generation and seeds the search.
TakesGeneration(t) == pc[t] = "fpi_begin" /\ pc'[t] = "fpi_loop"

Stamped(s, g) ==
  { i \in CellIndices :
      s.closedGeneration[i] = g \/ s.gCostGeneration[i] = g \/ s.parentGeneration[i] = g }

\* C23: nothing leaks from one search into the next, the wrap of the counter
\* included: in every state the generation nextGeneration() would return
\* stamps no cell; right after the seeding every cell but start reads as not
\* closed, of infinite g-cost and without parent; and the scratch arrays are
\* written by the searching lock holder only, so what a search reads under
\* its generation it has written itself.
C23_NoLeakBetweenSearches ==
  /\ [](Stamped(nextGeneration(Store), nextGeneration(Store).generationCounter) = {})
  /\ [][ \A t \in Threads : TakesGeneration(t) =>
           /\ Stamped(Store', generation') = { toIndex(req[t].start) }
           /\ \A i \in CellIndices \ { toIndex(req[t].start) } :
                /\ ~isClosed(Store', i, generation')
                /\ getGCost(Store', i, generation') = INT_MAX
                /\ ~hasParent(Store', i, generation')
                /\ getParent(Store', i, generation') = -1
           /\ ~isClosed(Store', toIndex(req[t].start), generation')
           /\ getGCost(Store', toIndex(req[t].start), generation') = 0 ]_vars
  /\ [][ ScratchArrays' # ScratchArrays =>
           \E t \in Threads : mutex = t /\ pc[t] \in {"fpi_begin", "fpi_loop"} ]_vars

\* The search that took the generation after the wrap is in its loop, over
\* cells the searches before the wrap had stamped with every generation.
C23_Witness ==
  /\ ops = GenModulus
  /\ generation = 1
  /\ pc["main"] = "fpi_loop"
  /\ iterations >= 1

\* C24: nextGeneration() adds one to the counter modulo 2^GenBits; when the
\* sum is 0 it clears every scratch array and returns 1, otherwise it clears
\* nothing and returns the sum; 0 is never returned, and no other step
\* changes the counter.
C24_ClearExactlyOnWrap ==
  [][ /\ generationCounter' # generationCounter => \E t \in Threads : TakesGeneration(t)
      /\ \A t \in Threads : TakesGeneration(t) =>
           LET sum   == (generationCounter + 1) % GenModulus
               start == toIndex(req[t].start)
           IN /\ generation' # 0
              /\ generationCounter' = generation'
              /\ generation' = (IF sum = 0 THEN 1 ELSE sum)
              /\ \A i \in CellIndices \ { start } :
                   IF sum = 0
                   THEN /\ closedGeneration'[i] = 0
                        /\ gCostGeneration'[i] = 0
                        /\ parentGeneration'[i] = 0
                        /\ gCostValues'[i] = INT_MAX
                        /\ parentValues'[i] = -1
                   ELSE /\ closedGeneration'[i] = closedGeneration[i]
                        /\ gCostGeneration'[i] = gCostGeneration[i]
                        /\ parentGeneration'[i] = parentGeneration[i]
                        /\ gCostValues'[i] = gCostValues[i]
                        /\ parentValues'[i] = parentValues[i] ]_vars

\* The counter has wrapped: the search in its first state after the clear,
\* every cell but start unstamped.
C24_Witness ==
  /\ ops = GenModulus
  /\ generationCounter = 1
  /\ pc["main"] = "fpi_loop"
  /\ iterations = 0
  /\ \A i \in CellIndices \ { toIndex(req["main"].start) } : gCostGeneration[i] = 0

(***************************************************************************)
(* Properties of the grid and the synchronous facade (SpecGrid).           *)
(***************************************************************************)
\* C4: after setObstacle(x, y, true), with no markObstaclesDirty call since,
\* the path the next findPath call returns does not contain (x, y).
C4_NextPathAvoidsBlocked ==
  \A t \in Threads :
    (result[t] # NoResult /\ avoid[t] # NoCell) =>
       \A k \in 1 .. Len(result[t]) : toIndex(result[t][k]) # avoid[t]

Searching(t) == pc[t] \in {"fpi_begin", "fpi_loop", "fpi_build"}

\* C5: a findPath call that began after markObstaclesDirty returned searches
\* a grid rebuilt from the sources as they were at that mark or later.
C5_SearchSeesMarkedSources ==
  \A t \in Threads : Searching(t) => gridVersion >= callMark[t]

\* C9: while a thread holds the shared lock, inside a search or a rebuild, no
\* other thread writes the obstacle grid: a step that changes the grid with
\* the lock held is a step of the holder.
C9_GridWrittenUnderLock ==
  [][ (obstacles' # obstacles /\ mutex # NoThread) => pc'[mutex] # pc[mutex] ]_vars

\* What the terrain source says of cell (x, z): unwalkable, or outside its
\* bounds.
TerrainSaysBlocked(x, z) ==
  \/ x >= terrain.width
  \/ z >= terrain.height
  \/ Point(x, z) \in terrain.unwalkable

FootprintCovers(x, z) ==
  \E building \in buildings : \E cell \in building :
    /\ RoundHalves(cell[1] - gridOffset.x) = x
    /\ RoundHalves(cell[2] - gridOffset.z) = z

\* C18: at the end of a rebuild the grid is a function of the sources alone:
\* a cell is blocked exactly when the terrain source reports it unwalkable or
\* it lies outside the terrain's bounds or a building footprint, after offset
\* subtraction and rounding, covers it.
C18_RebuildFromSourcesOnly ==
  [][ \A t \in Threads :
        (pc[t] = "ubo_buildings" /\ pc'[t] = "ubo_store") =>
           \A i \in CellIndices :
             obstacles'[i] = 1 <=>
               (TerrainSaysBlocked(i % Width, i \div Width) \/ FootprintCovers(i % Width, i \div Width)) ]_vars

\* C19: setObstacle with x or y out of range changes nothing of the engine;
\* in range it sets cell (x, y) and leaves every other cell, the dirty flag
\* and the rest of the engine as they were.  isWalkable is false for every
\* coordinate out of range and otherwise true exactly when the cell is not
\* blocked.
C19_RangeChecked ==
  /\ [](\A x \in -1 .. Width, y \in -1 .. Height :
          isWalkable(x, y) <=>
            (x \in 0 .. Width - 1 /\ y \in 0 .. Height - 1 /\ obstacles[y * Width + x] # 1))
  /\ [][ \A p \in EditPoints, b \in BOOLEAN :
          SetObstacle("main", p.x, p.y, b) =>
            /\ UNCHANGED << obstaclesDirty, gridOffset, searchVars, pipeVars, resultMutex,
                            results, srcVars, mutex, pc, req, result >>
            /\ IF p.x \in 0 .. Width - 1 /\ p.y \in 0 .. Height - 1
               THEN /\ obstacles'[p.y * Width + p.x] = (IF b THEN 1 ELSE 0)
                    /\ \A i \in CellIndices \ { p.y * Width + p.x } :
                         obstacles'[i] = obstacles[i]
               ELSE obstacles' = obstacles ]_vars

\* (1, 0) is the one blocked cell, by a setObstacle call with the dirty flag
\* clear.
C19_Witness ==
  /\ lastBlocked = toIndex(Point(1, 0))
  /\ ~obstaclesDirty
  /\ \A i \in CellIndices : obstacles[i] = 1 <=> i = toIndex(Point(1, 0))

\* C20: a markObstaclesDirty call leaves the dirty flag set and changes nothing
\* else of the engine: the grid, the scratch arrays, the generation counter
\* and both queues are after the call what they were before it.
C20_MarkSetsFlagOnly ==
  [][ (\E t \in Callers : MarkObstaclesDirty(t)) =>
        /\ obstaclesDirty'
        /\ UNCHANGED << obstacles, gridOffset, ScratchArrays, generation, iterations,
                        final_cost, pipeVars, resultMutex, results, srcVars, mutex,
                        pc, req, result >> ]_vars

\* The flag is set by a mark made after the sources changed, over a grid that
\* a rebuild has filled and in which setObstacle has blocked (1, 0).
C20_Witness ==
  /\ obstaclesDirty
  /\ srcVersion >= 1
  /\ markedVersion = srcVersion
  /\ gridVersion >= 0
  /\ obstacles[toIndex(Point(1, 0))] = 1
  /\ ~TerrainBlocked(1, 0)
  /\ ~BuildingBlocked(1, 0)
  /\ pc["main"] = "idle"

\* Thread t is past the dirty check and the rebuild of its findPath call, or
\* back from the call.
PastRebuild(t) ==
  \/ pc[t] \in {"fp_lock", "fpi_begin", "fpi_loop", "fpi_build"}
  \/ result[t] # NoResult

\* C21: the flag set once (by the constructor, no markObstaclesDirty call) and
\* several threads in findPath: one rebuild pass is run, never a second one,
\* and every thread that goes on to its search does so after that pass.  In
\* general no more passes are run than the flag was set.
C21_RebuildsCollapse ==
  /\ passes <= marks
  /\ marks = 1 => \A t \in Threads : PastRebuild(t) => passes = 1

\* main saw the flag dirty at the outer check and waits for the lock; the task
\* has meanwhile run the pass and cleared the flag.
C21_Witness ==
  /\ marks = 1
  /\ passes = 1
  /\ pc["main"] = "ubo_lock"
  /\ ~obstaclesDirty
  /\ pc["task"] \in {"fp_lock", "fpi_begin", "fpi_loop", "fpi_build"}

\* C22: the dirty flag falls only in the step that ends a rebuild, taken by
\* the thread that holds the shared lock and has run the pass; and it is set
\* from construction until the first rebuild has ended.
C22_FlagClearedByRebuildOnly ==
  /\ []((passes = 0 \/ (passes = 1 /\ \E t \in Threads : pc[t] \in {"ubo_buildings", "ubo_store"}))
          => obstaclesDirty)
  /\ [][ (obstaclesDirty /\ ~obstaclesDirty') =>
           \E t \in Threads :
             /\ mutex = t
             /\ pc[t] = "ubo_store"
             /\ pc'[t] = "fp_lock"
             /\ passes >= 1
             /\ obstacles' = obstacles ]_vars

\* The first rebuild has just ended: the flag is clear and the lock free.
C22_Witness ==
  /\ ~obstaclesDirty
  /\ passes = 1
  /\ pc["main"] = "fp_lock"
  /\ mutex = NoThread

(***************************************************************************)
(* Properties of all searchers together (SpecMixed).                       *)
(***************************************************************************)
\* Thread t is inside findPathInternal or inside the locked part of the
\* rebuild.
InCritical(t) ==
  pc[t] \in {"ubo_fill", "ubo_terrain", "ubo_buildings", "ubo_store",
             "fpi_begin", "fpi_loop", "fpi_build"}

\* C29: among the worker, the direct callers and the async task at most one
\* thread is inside findPathInternal or inside the locked part of the rebuild,
\* and that thread holds the shared lock.
C29_OneSearcherAtATime ==
  /\ \A t, u \in Threads : (InCritical(t) /\ InCritical(u)) => t = u
  /\ \A t \in Threads : InCritical(t) => mutex = t

\* The worker is in its search loop while main, peer and the task wait for
\* the lock.
C29_Witness ==
  /\ pc["worker"] = "fpi_loop"
  /\ pc["main"] = "fp_lock"
  /\ pc["peer"] = "fp_lock"
  /\ pc["task"] = "fp_lock"

(***************************************************************************)
(* Properties of the three mutexes (SpecLocks).                            *)
(***************************************************************************)
\* The mutexes thread t holds.
Held(t) ==
  { m \in {"m_mutex", "m_requestMutex", "m_resultMutex"} :
      \/ m = "m_mutex" /\ mutex = t
      \/ m = "m_requestMutex" /\ requestMutex = t
      \/ m = "m_resultMutex" /\ resultMutex = t }

\* The next step of thread t is the acquisition of a mutex: lines 63 and 126
\* for every searcher, lines 456 and 474 for the worker, lines 138 and 148
\* for a caller that starts submitPathRequest or fetchCompletedPaths.
AboutToLock(t) ==
  \/ pc[t] \in {"ubo_lock", "fp_lock", "w_lock", "w_push"}
  \/ pc[t] = "idle" /\ t \in Callers

\* Thread t, holding a mutex, has a step it can take whatever the other
\* threads do.
HolderCanStep(t) ==
  /\ mutex = t => ENABLED FindPathStep(t)
  /\ requestMutex = t => ENABLED WorkerWait
  /\ resultMutex = t => ENABLED FetchCompletedPaths(t)

\* C31: no thread holds two of m_mutex, m_requestMutex and m_resultMutex at
\* the same time: a thread about to acquire one holds none.  So no thread
\* waits for a mutex while it holds another, and the holder of a mutex can
\* always go on: there is no deadlock on the acquisition of a lock.
C31_NoNestedLocks ==
  \A t \in Threads :
    /\ Cardinality(Held(t)) <= 1
    /\ AboutToLock(t) => Held(t) = {}
    /\ HolderCanStep(t)

\* All three mutexes are held, each by another thread, while the task waits
\* for m_mutex.
C31_Witness ==
  /\ mutex = "peer"
  /\ requestMutex = "worker"
  /\ resultMutex = "main"
  /\ pc["task"] = "fp_lock"

(***************************************************************************)
(* Properties of the request pipeline (SpecPipeline, SpecTeardown).        *)
(***************************************************************************)
Count(seq, x) == Cardinality({ k \in 1 .. Len(seq) : seq[k] = x })

\* The id of the request the worker has popped and not yet appended a result
\* for.
InFlight ==
  IF pc["worker"] \in {"w_lock", "w_wait", "w_blocked", "w_exit"}
  THEN << >>
  ELSE << request.request_id >>

\* C6: every submitted id is in exactly one of the request queue, the worker,
\* the result queue and the results fetched (returned, or in the list of a
\* fetch in progress); an id never submitted is in none of them.
C6_NoLossNoDuplicate ==
  \A id \in RequestIdSet :
    Count(RequestIds(requestQueue), id) + Count(InFlight, id)
       + Count(RequestIds(resultQueue), id) + Count(RequestIds(results), id)
       + Count(fetched, id)
      = IF Count(submitted, id) > 0 THEN 1 ELSE 0

\* Two requests went through the pipeline and were fetched.
C6_Witness == Len(fetched) >= 2 /\ fetched[1] # fetched[2]

\* C7: under fair scheduling, with the callers polling, every submitted
\* request is eventually returned by a fetchCompletedPaths call.
C7_EveryRequestFetched ==
  \A id \in RequestIdSet : (Count(submitted, id) > 0) ~> (Count(fetched, id) > 0)

\* A request submitted while the worker was in its wait has been fetched, and
\* nothing is left in the pipeline.
C7_Witness ==
  /\ fetched # << >>
  /\ Len(fetched) = Len(submitted)
  /\ pc["worker"] = "w_blocked"

\* C8: requests complete in the order they entered the request queue: the ids
\* fetched, then those in the list of a fetch in progress, those in the result
\* queue, the one the worker holds and those still queued, read in this order,
\* are the ids as submitted.
C8_FifoOrder ==
  fetched \o RequestIds(results) \o RequestIds(resultQueue) \o InFlight
     \o RequestIds(requestQueue) = submitted

\* Two requests were fetched, the first of them with the larger id.
C8_Witness == Len(fetched) >= 2 /\ fetched[1] > fetched[2]

\* C15: a fetch drains the result queue in one piece: while it holds the
\* result lock, its list followed by the queue is the queue as it was when the
\* lock was taken (the worker appends nothing meanwhile), and when it returns
\* the queue is empty and the list returned is that queue, in its order.
C15_FetchDrainsAtomically ==
  /\ [](resultMutex # NoThread => results \o resultQueue = fetchSnapshot)
  /\ [][ \A t \in Callers :
           (pc[t] = "fc_loop" /\ pc'[t] = "idle") =>
              /\ resultQueue = << >> /\ resultQueue' = << >>
              /\ results = fetchSnapshot
              /\ fetched' = fetched \o RequestIds(fetchSnapshot) ]_vars

\* A fetch has moved a result to its list and emptied the queue while the
\* worker stands ready to append the next result.
C15_Witness ==
  /\ \E t \in Callers : pc[t] = "fc_loop"
  /\ Len(results) = 1
  /\ resultQueue = << >>
  /\ pc["worker"] = "w_push"

InFindPath(t) ==
  pc[t] \in {"fp_check", "ubo_outer", "ubo_lock", "ubo_fill", "ubo_terrain", "ubo_buildings",
              "ubo_store", "fp_lock",
             "fpi_begin", "fpi_loop", "fpi_build"}

\* C16: submitting and fetching do not wait on a search: a thread inside
\* submitPathRequest or fetchCompletedPaths never holds the search lock, the
\* worker inside findPath holds neither queue lock, and while the worker is
\* inside findPath a caller can submit, can begin a fetch when no other fetch
\* holds the result lock, and can carry its fetch on.
C16_QueuesApartFromSearch ==
  /\ \A t \in Callers : pc[t] \in {"sp_notify", "fc_loop"} => mutex # t
  /\ InFindPath("worker") =>
       /\ requestMutex # "worker" /\ resultMutex # "worker"
       /\ \A t \in Callers :
            /\ (pc[t] = "idle" /\ Len(submitted) < MaxRequests) =>
                  ENABLED (\E id \in RequestIdSet, q \in QueryPairs :
                              SubmitPush(t, id, q[1], q[2]))
            /\ (pc[t] = "idle" /\ resultMutex = NoThread) => ENABLED FetchLock(t)
            /\ pc[t] = "fc_loop" => ENABLED (FetchMove(t) \/ FetchReturn(t))

\* The worker is in the loop of a search, holding the search lock, while one
\* caller is inside a fetch and the other has just pushed a request.
C16_Witness ==
  /\ pc["worker"] = "fpi_loop" /\ mutex = "worker"
  /\ \E t \in Callers : pc[t] = "fc_loop"
  /\ \E t \in Callers : pc[t] = "sp_notify"

\* C30: the worker leaves its loop only with the stop flag set and the request
\* queue empty, so that once it has left every submitted request has its
\* result appended (in the result queue or fetched); a loop turn pops the
\* front request and no other, and appends one result, which carries the id of
\* the request popped.
C30_WorkerDrainsBeforeExit ==
  /\ [](pc["worker"] = "w_exit" =>
          /\ stopWorker
          /\ requestQueue = << >>
          /\ \A k \in 1 .. Len(submitted) :
               Count(fetched \o RequestIds(results) \o RequestIds(resultQueue), submitted[k]) = 1)
  /\ [][ /\ (pc["worker"] # "w_exit" /\ pc'["worker"] = "w_exit") =>
             (stopWorker /\ requestQueue = << >>)
         /\ requestQueue' # requestQueue /\ Len(requestQueue') < Len(requestQueue) =>
             /\ pc["worker"] = "w_lock" /\ pc'["worker"] = "fp_check"
             /\ request' = Head(requestQueue)
             /\ requestQueue' = Tail(requestQueue)
             /\ req'["worker"] = [start |-> request'.start, end |-> request'.end]
         /\ (pc["worker"] = "w_push" /\ pc'["worker"] # "w_push") =>
             /\ pc'["worker"] = "w_lock"
             /\ resultQueue' = Append(resultQueue,
                                      PathResult(request.request_id, result["worker"]))
         /\ (Len(resultQueue') > Len(resultQueue)) => pc["worker"] = "w_push" ]_vars

\* The worker has left its loop after the results of all requests were
\* appended, none of them fetched.
C30_Witness ==
  /\ pc["worker"] = "w_exit"
  /\ Len(submitted) = MaxRequests
  /\ RequestIds(resultQueue) = submitted

\* C10: once the destructor has set the stop flag, the worker leaves
\* workerLoop and the join returns; the worker runs nothing after it.
C10_TeardownCompletes ==
  /\ stopWorker ~> (pc["main"] = "destroyed")
  /\ [](pc["main"] = "destroyed" => pc["worker"] = "w_exit")

====
